---- MODULE Spec2Model ----
(***************************************************************************)
(* Subscription lifecycle of app.py: the payment webhook (activation),     *)
(* the expiry sweep, and the JSON store they share.  Flask serves each     *)
(* request on its own thread and APScheduler runs the cron job on a pool   *)
(* thread, so the handlers interleave; app.py takes no lock.  A step of    *)
(* the model is one access to the shared store or to a file, or one call   *)
(* to the chat platform or the gateway, with the code that leads to it.    *)
(***************************************************************************)
EXTENDS Integers, Sequences, FiniteSets, TLC

VARIABLES now, DB, file, tmp, fh, pc, wl, sl, issued

vars == <<now, DB, file, tmp, fh, pc, wl, sl, issued>>

\* ------------------------------------------------------------------ bounds
\* Largest clock value explored (one unit = one day).
MaxTime == 1

\* ------------------------------------------------------------ configuration
\* SUBSCRIPTION_DAYS, read from the environment (app.py:22), in days.
SUBSCRIPTION_DAYS == 1

\* A request thread of the Flask server, which serves /instamojo-webhook and
\* /run-expiry, and the APScheduler thread that runs the cron job.
FlaskThreads == {"flask"}
Threads == FlaskThreads \cup {"cron"}

\* Subscriber identities as the store keys them: str(tg_id).
Identities == {"1", "2"}

\* An absent field of a record (a key the dict does not hold).
None == -1

\* --------------------------------------------------------------- the store
\* The store maps each identity to its record, or to NoRecord when the dict
\* holds no such key.  Iteration visits the keys in the order of IdOrder.
NoRecord ==
    [status |-> "none", expiry_ts |-> None, last_payment |-> None,
     expired_at |-> None]

EmptyDB == [u \in Identities |-> NoRecord]

IdOrder == <<"1", "2">>

Has(d, k) == d[k] # NoRecord

Keys(d) == {k \in Identities : Has(d, k)}

\* d[k] = v
Put(d, k, v) == [d EXCEPT ![k] = v]

IsKey(k) == Has(DB, k)

\* [k for k, _ in list(DB.items())]
KeyList == SelectSeq(IdOrder, IsKey)

\* ---------------------------------------------------------------- records
\* The dict instamojo_webhook stores for a subscriber at instant t.
ActiveRecord(t) ==
    [status |-> "active", expiry_ts |-> t + SUBSCRIPTION_DAYS,
     last_payment |-> t, expired_at |-> None]

\* rec after rec["status"] = "expired".
MarkExpired(rec) == [rec EXCEPT !.status = "expired"]

\* rec after rec["expired_at"] = datetime.now(IST).isoformat() at instant t.
StampExpired(rec, t) == [rec EXCEPT !.expired_at = t]

\* rec.get("status") == "active" and int(rec.get("expiry_ts", 0)) <= now_ts
IsDue(rec, now_ts) ==
    /\ rec.status = "active"
    /\ (IF rec.expiry_ts = None THEN 0 ELSE rec.expiry_ts) <= now_ts

\* The item of list(DB.items()) is the dict DB holds, not a copy, for as long
\* as the webhook has not stored a new dict under the key.
Live == [status |-> "live", expiry_ts |-> None, last_payment |-> None,
         expired_at |-> None]

\* --------------------------------------------------------------- the files
Absent == [kind |-> "absent", data |-> EmptyDB]
Partial == [kind |-> "partial", data |-> EmptyDB]
Full(d) == [kind |-> "full", data |-> d]

\* load_db: a missing file and an unparsable one both give {}.
load_db(f) == IF f.kind = "full" THEN f.data ELSE EmptyDB

\* ---------------------------------------------------------- the gateway
\* Payment requests the gateway knows, as im_get_payment_request returns
\* them: the status and metadata["telegram_user_id"].
Requests == {"r1", "r2", "r3", "r4"}
NoRequest == ""

Gateway(req) ==
    CASE req = "r1" -> [status |-> "Completed", telegram_user_id |-> "1"]
      [] req = "r2" -> [status |-> "Credit", telegram_user_id |-> "2"]
      [] req = "r3" -> [status |-> "Pending", telegram_user_id |-> "1"]
      [] OTHER -> [status |-> "Completed", telegram_user_id |-> "abc"]

AcceptedStatus == {"Completed", "Credit", "Success"}

\* str.isdigit() on the metadata values the gateway table holds.
IsDigit(s) == s \in Identities

\* ----------------------------------------------------------- thread locals
\* The locals of instamojo_webhook, and what the call has done so far.
WIdle ==
    [req |-> NoRequest, tg_id |-> "", invite |-> "none", renewal |-> FALSE,
     saved |-> "no", dm |-> "none", resp |-> ""]

\* The call is over: its locals are gone, what it did and answered is kept
\* until the thread takes its next request.
WResult(w, text) == [WIdle EXCEPT !.invite = w.invite, !.saved = w.saved,
                                  !.dm = w.dm, !.resp = text]

NoLog == [u \in Identities |-> "none"]
AllLive == [u \in Identities |-> Live]

\* The locals of expiry_job: now_ts, the items of the loop still to come,
\* the dicts they are bound to, changed; and what the run has done so far
\* (log), whether it started with nothing due (idle), how it ended (resp).
SIdle ==
    [now_ts |-> 0, items |-> <<>>, old |-> AllLive, changed |-> FALSE,
     log |-> NoLog, idle |-> FALSE, resp |-> ""]

SResult(x, text) == [SIdle EXCEPT !.idle = x.idle, !.resp = text]

Init ==
    /\ now = 0
    /\ file = Absent
    /\ tmp = Absent
    /\ DB = load_db(Absent)
    /\ fh = [t \in Threads |-> "none"]
    /\ pc = [t \in Threads |-> "idle"]
    /\ wl = [t \in FlaskThreads |-> WIdle]
    /\ sl = [s \in Threads |-> SIdle]
    /\ issued = {}

\* ---------------------------------------------------------------- save_db
\* open(tmp, "w"): the temporary path is created, or the file it names is
\* truncated; the handle follows the file it opened.
OpenTmp(t) ==
    /\ tmp' = Partial
    /\ fh' = [fh EXCEPT ![t] = "tmp"]
    /\ UNCHANGED file

\* json.dump through the handle, then the with-block closes it.  The handle
\* writes the file it opened, wherever a later os.replace has moved it.
\* ok = FALSE: the dump raises part-way (an OSError, or a RuntimeError when
\* another thread resizes a dict being iterated).
Dump(t, ok) ==
    LET content == IF ok THEN Full(DB) ELSE Partial
    IN  /\ tmp' = IF fh[t] = "tmp" THEN content ELSE tmp
        /\ file' = IF fh[t] = "canon" THEN content ELSE file
        /\ fh' = [fh EXCEPT ![t] = "none"]

\* os.replace(tmp, DATA_FILE): the temporary file becomes the canonical one,
\* the old canonical file is unlinked, and open handles follow their files.
Replace ==
    /\ tmp.kind # "absent"
    /\ file' = tmp
    /\ tmp' = Absent
    /\ fh' = [u \in Threads |->
                IF fh[u] = "tmp" THEN "canon"
                ELSE IF fh[u] = "canon" THEN "gone" ELSE fh[u]]

\* ------------------------------------------------------- instamojo_webhook
\* The items a sweep has listed and not yet tested.
Unvisited(s) ==
    IF pc[s] = "visit" THEN {sl[s].items[i] : i \in 1..Len(sl[s].items)}
    ELSE IF pc[s] \in {"mark", "stamp", "dm"}
    THEN {sl[s].items[i] : i \in 2..Len(sl[s].items)}
    ELSE {}

\* Storing a new dict under uid leaves every sweep that listed the old dict
\* holding the old one.
Detach(uid) ==
    [s \in Threads |->
        IF uid \in Unvisited(s) /\ sl[s].old[uid] = Live
        THEN [sl[s] EXCEPT !.old[uid] = DB[uid]]
        ELSE sl[s]]

\* No payment_request_id and no payment_request in the form.
WMissing(t) ==
    /\ pc[t] = "idle"
    /\ pc' = [pc EXCEPT ![t] = "done"]
    /\ wl' = [wl EXCEPT ![t] = WResult(@, "missing request id")]
    /\ UNCHANGED <<now, DB, file, tmp, fh, sl, issued>>

\* im_get_payment_request raises.
WVerifyFailed(t, req) ==
    /\ pc[t] = "idle"
    /\ pc' = [pc EXCEPT ![t] = "done"]
    /\ wl' = [wl EXCEPT ![t] = WResult(@, "verify failed")]
    /\ UNCHANGED <<now, DB, file, tmp, fh, sl, issued>>

\* As WIgnored, with the status test lost: the delivery goes on.
WIgnoredActivates(t, req) ==
    /\ pc[t] = "idle"
    /\ Gateway(req).status \notin AcceptedStatus
    /\ pc' = [pc EXCEPT ![t] = "invite"]
    /\ wl' = [wl EXCEPT ![t].req = req,
                        ![t].tg_id = Gateway(req).telegram_user_id]
    /\ UNCHANGED <<now, DB, file, tmp, fh, sl, issued>>

\* status not in ("Completed", "Credit", "Success")
WIgnored(t, req) ==
    /\ pc[t] = "idle"
    /\ Gateway(req).status \notin AcceptedStatus
    /\ pc' = [pc EXCEPT ![t] = "done"]
    /\ wl' = [wl EXCEPT ![t] = WResult(@, "ignored")]
    /\ UNCHANGED <<now, DB, file, tmp, fh, sl, issued>>

WNoUser(t, req) ==
    /\ pc[t] = "idle"
    /\ Gateway(req).status \in AcceptedStatus
    /\ ~IsDigit(Gateway(req).telegram_user_id)
    /\ pc' = [pc EXCEPT ![t] = "done"]
    /\ wl' = [wl EXCEPT ![t] = WResult(@, "no user")]
    /\ UNCHANGED <<now, DB, file, tmp, fh, sl, issued>>

WVerified(t, req) ==
    /\ pc[t] = "idle"
    /\ Gateway(req).status \in AcceptedStatus
    /\ IsDigit(Gateway(req).telegram_user_id)
    /\ pc' = [pc EXCEPT ![t] = "invite"]
    /\ wl' = [wl EXCEPT ![t].req = req,
                        ![t].tg_id = Gateway(req).telegram_user_id]
    /\ UNCHANGED <<now, DB, file, tmp, fh, sl, issued>>

\* create_single_use_invite returns a link.
WInvite(t) ==
    /\ pc[t] = "invite"
    /\ issued' = issued \cup {wl[t].req}
    /\ pc' = [pc EXCEPT ![t] = "write"]
    /\ wl' = [wl EXCEPT ![t].invite = "ok"]
    /\ UNCHANGED <<now, DB, file, tmp, fh, sl>>

\* As WInviteFail, with the record stored before the credential is issued.
WInviteFailStores(t) ==
    /\ pc[t] = "invite"
    /\ DB' = Put(DB, wl[t].tg_id, ActiveRecord(now))
    /\ pc' = [pc EXCEPT ![t] = "done"]
    /\ wl' = [wl EXCEPT ![t] = WResult([@ EXCEPT !.invite = "failed"], "ok")]
    /\ UNCHANGED <<now, file, tmp, fh, sl, issued>>

\* create_single_use_invite raises: except Exception: pass.
WInviteFail(t) ==
    /\ pc[t] = "invite"
    /\ pc' = [pc EXCEPT ![t] = "done"]
    /\ wl' = [wl EXCEPT ![t] = WResult([@ EXCEPT !.invite = "failed"], "ok")]
    /\ UNCHANGED <<now, DB, file, tmp, fh, sl, issued>>

\* As WWrite, with a renewal added to the period that is left.
WWriteAccumulates(t) ==
    /\ pc[t] = "write"
    /\ DB' = Put(DB, wl[t].tg_id,
                 IF Has(DB, wl[t].tg_id)
                 THEN [ActiveRecord(now) EXCEPT
                         !.expiry_ts = DB[wl[t].tg_id].expiry_ts + SUBSCRIPTION_DAYS]
                 ELSE ActiveRecord(now))
    /\ sl' = Detach(wl[t].tg_id)
    /\ pc' = [pc EXCEPT ![t] = "open"]
    /\ wl' = [wl EXCEPT ![t].renewal = Has(DB, wl[t].tg_id)]
    /\ UNCHANGED <<now, file, tmp, fh, issued>>

\* expiry = now + SUBSCRIPTION_DAYS; DB[str(tg_id)] = {...}
WWrite(t) ==
    /\ pc[t] = "write"
    /\ DB' = Put(DB, wl[t].tg_id, ActiveRecord(now))
    /\ sl' = Detach(wl[t].tg_id)
    /\ pc' = [pc EXCEPT ![t] = "open"]
    /\ wl' = [wl EXCEPT ![t].renewal = Has(DB, wl[t].tg_id)]
    /\ UNCHANGED <<now, file, tmp, fh, issued>>

WOpen(t) ==
    /\ pc[t] = "open"
    /\ OpenTmp(t)
    /\ pc' = [pc EXCEPT ![t] = "dump"]
    /\ UNCHANGED <<now, DB, wl, sl, issued>>

WDump(t) ==
    /\ pc[t] = "dump"
    /\ Dump(t, TRUE)
    /\ pc' = [pc EXCEPT ![t] = "replace"]
    /\ UNCHANGED <<now, DB, wl, sl, issued>>

WDumpFail(t) ==
    /\ pc[t] = "dump"
    /\ Dump(t, FALSE)
    /\ pc' = [pc EXCEPT ![t] = "done"]
    /\ wl' = [wl EXCEPT ![t] = WResult([@ EXCEPT !.saved = "failed"], "ok")]
    /\ UNCHANGED <<now, DB, sl, issued>>

WReplace(t) ==
    /\ pc[t] = "replace"
    /\ Replace
    /\ pc' = [pc EXCEPT ![t] = "notify"]
    /\ wl' = [wl EXCEPT ![t].saved = "ok"]
    /\ UNCHANGED <<now, DB, sl, issued>>

\* os.replace finds no temporary file: another save has moved it away.
WReplaceFail(t) ==
    /\ pc[t] = "replace"
    /\ tmp.kind = "absent"
    /\ pc' = [pc EXCEPT ![t] = "done"]
    /\ wl' = [wl EXCEPT ![t] = WResult([@ EXCEPT !.saved = "failed"], "ok")]
    /\ UNCHANGED <<now, DB, file, tmp, fh, sl, issued>>

\* threading.Thread(target=send_dm_blocking, ...).start().  The thread
\* shares nothing with the handlers, so its send is taken with the step that
\* starts it: here bot.send_message returns.
WNotify(t) ==
    /\ pc[t] = "notify"
    /\ pc' = [pc EXCEPT ![t] = "done"]
    /\ wl' = [wl EXCEPT ![t] = WResult([@ EXCEPT !.dm = "sent"], "ok")]
    /\ UNCHANGED <<now, DB, file, tmp, fh, sl, issued>>

\* As WNotifyLost, with the record taken back when the message is lost.
WNotifyLostRollsBack(t) ==
    /\ pc[t] = "notify"
    /\ DB' = Put(DB, wl[t].tg_id, NoRecord)
    /\ pc' = [pc EXCEPT ![t] = "done"]
    /\ wl' = [wl EXCEPT ![t] = WResult([@ EXCEPT !.dm = "lost"], "ok")]
    /\ UNCHANGED <<now, file, tmp, fh, sl, issued>>

\* The thread is started and bot.send_message raises inside it:
\* send_dm_blocking swallows the exception.
WNotifyLost(t) ==
    /\ pc[t] = "notify"
    /\ pc' = [pc EXCEPT ![t] = "done"]
    /\ wl' = [wl EXCEPT ![t] = WResult([@ EXCEPT !.dm = "lost"], "ok")]
    /\ UNCHANGED <<now, DB, file, tmp, fh, sl, issued>>

\* return ..., 200 : the request thread is free again.
WReturn(t) ==
    /\ pc[t] = "done"
    /\ pc' = [pc EXCEPT ![t] = "idle"]
    /\ wl' = [wl EXCEPT ![t] = WIdle]
    /\ UNCHANGED <<now, DB, file, tmp, fh, sl, issued>>

\* -------------------------------------------------------------- expiry_job
\* The uid of the iteration in progress and the dict `rec` is bound to.
Uid(s) == Head(sl[s].items)

RecOf(s, uid) == IF sl[s].old[uid] = Live THEN DB[uid] ELSE sl[s].old[uid]

\* No listed record is both active and due at now_ts.
NothingDue(d, now_ts) == \A u \in Keys(d) : ~IsDue(d[u], now_ts)

\* except Exception: continue, and the end of an iteration: the next item.
NextItem(s, outcome) ==
    /\ pc' = [pc EXCEPT ![s] = "visit"]
    /\ sl' = [sl EXCEPT ![s].items = Tail(@), ![s].log[Uid(s)] = outcome]

\* /run-expiry with a wrong X-CRON-SECRET: abort(401).
RunExpiryDenied(t) ==
    /\ pc[t] = "idle"
    /\ pc' = [pc EXCEPT ![t] = "s_done"]
    /\ sl' = [sl EXCEPT ![t].resp = "401"]
    /\ UNCHANGED <<now, DB, file, tmp, fh, wl, issued>>

\* if not DB: return
SweepEmpty(s) ==
    /\ pc[s] = "idle"
    /\ DB = EmptyDB
    /\ pc' = [pc EXCEPT ![s] = "s_done"]
    /\ sl' = [sl EXCEPT ![s] = SResult([@ EXCEPT !.idle = TRUE], "ran")]
    /\ UNCHANGED <<now, DB, file, tmp, fh, wl, issued>>

\* now_ts = ...; changed = False; list(DB.items())
SweepStart(s) ==
    /\ pc[s] = "idle"
    /\ DB # EmptyDB
    /\ pc' = [pc EXCEPT ![s] = "visit"]
    /\ sl' = [sl EXCEPT ![s].now_ts = now, ![s].items = KeyList,
                        ![s].idle = NothingDue(DB, now)]
    /\ UNCHANGED <<now, DB, file, tmp, fh, wl, issued>>

\* As SweepSkip, with the prompt sent again for the record.
SweepSkipPrompts(s) ==
    /\ pc[s] = "visit"
    /\ sl[s].items # <<>>
    /\ ~IsDue(RecOf(s, Uid(s)), sl[s].now_ts)
    /\ pc' = [pc EXCEPT ![s] = "dm"]
    /\ UNCHANGED <<now, DB, file, tmp, fh, wl, sl, issued>>

\* The condition of line 215 is false: nothing is done for this record.
SweepSkip(s) ==
    /\ pc[s] = "visit"
    /\ sl[s].items # <<>>
    /\ ~IsDue(RecOf(s, Uid(s)), sl[s].now_ts)
    /\ NextItem(s, "skipped")
    /\ UNCHANGED <<now, DB, file, tmp, fh, wl, issued>>

\* The condition holds, bot.ban_chat_member returns and so does
\* bot.unban_chat_member(..., only_if_banned=True).
SweepRevoke(s) ==
    /\ pc[s] = "visit"
    /\ sl[s].items # <<>>
    /\ IsDue(RecOf(s, Uid(s)), sl[s].now_ts)
    /\ pc' = [pc EXCEPT ![s] = "mark"]
    /\ sl' = [sl EXCEPT ![s].log[Uid(s)] = "revoked"]
    /\ UNCHANGED <<now, DB, file, tmp, fh, wl, issued>>

\* The condition holds and bot.ban_chat_member raises.
SweepBanFail(s) ==
    /\ pc[s] = "visit"
    /\ sl[s].items # <<>>
    /\ IsDue(RecOf(s, Uid(s)), sl[s].now_ts)
    /\ NextItem(s, "ban_failed")
    /\ UNCHANGED <<now, DB, file, tmp, fh, wl, issued>>

\* As SweepUnbanFail, with the except clause lost: the record is marked.
SweepUnbanFailMarks(s) ==
    /\ pc[s] = "visit"
    /\ sl[s].items # <<>>
    /\ IsDue(RecOf(s, Uid(s)), sl[s].now_ts)
    /\ pc' = [pc EXCEPT ![s] = "mark"]
    /\ sl' = [sl EXCEPT ![s].log[Uid(s)] = "unban_failed"]
    /\ UNCHANGED <<now, DB, file, tmp, fh, wl, issued>>

\* The condition holds, bot.ban_chat_member returns and
\* bot.unban_chat_member raises: the member is left banned.
SweepUnbanFail(s) ==
    /\ pc[s] = "visit"
    /\ sl[s].items # <<>>
    /\ IsDue(RecOf(s, Uid(s)), sl[s].now_ts)
    /\ NextItem(s, "unban_failed")
    /\ UNCHANGED <<now, DB, file, tmp, fh, wl, issued>>

\* As SweepMark, with the status left as it is.
SweepMarkNothing(s) ==
    /\ pc[s] = "mark"
    /\ pc' = [pc EXCEPT ![s] = "stamp"]
    /\ UNCHANGED <<now, DB, file, tmp, fh, wl, sl, issued>>

\* DB[uid]["status"] = "expired", on the dict DB holds under uid now.
SweepMark(s) ==
    /\ pc[s] = "mark"
    /\ DB' = Put(DB, Uid(s), MarkExpired(DB[Uid(s)]))
    /\ pc' = [pc EXCEPT ![s] = "stamp"]
    /\ UNCHANGED <<now, file, tmp, fh, wl, sl, issued>>

\* DB[uid]["expired_at"] = datetime.now(IST).isoformat(): a second lookup
\* of DB[uid], after the call that computes the value.
SweepStamp(s) ==
    /\ pc[s] = "stamp"
    /\ DB' = Put(DB, Uid(s), StampExpired(DB[Uid(s)], now))
    /\ pc' = [pc EXCEPT ![s] = "dm"]
    /\ UNCHANGED <<now, file, tmp, fh, wl, sl, issued>>

\* send_dm_blocking(int(uid), rejoin) inside the loop (the send returns or
\* its exception is swallowed); changed = True.
SweepDM(s) ==
    /\ pc[s] = "dm"
    /\ pc' = [pc EXCEPT ![s] = "visit"]
    /\ sl' = [sl EXCEPT ![s].items = Tail(@), ![s].log[Uid(s)] = "expired",
                        ![s].changed = TRUE]
    /\ UNCHANGED <<now, DB, file, tmp, fh, wl, issued>>

\* The loop is over and changed is False.
SweepEnd(s) ==
    /\ pc[s] = "visit"
    /\ sl[s].items = <<>>
    /\ ~sl[s].changed
    /\ pc' = [pc EXCEPT ![s] = "s_done"]
    /\ sl' = [sl EXCEPT ![s] = SResult(@, "ran")]
    /\ UNCHANGED <<now, DB, file, tmp, fh, wl, issued>>

\* As SOpen, without the test of changed.
SOpenAlways(s) ==
    /\ pc[s] = "visit"
    /\ sl[s].items = <<>>
    /\ OpenTmp(s)
    /\ pc' = [pc EXCEPT ![s] = "s_dump"]
    /\ UNCHANGED <<now, DB, wl, sl, issued>>

\* if changed: save_db(DB)
SOpen(s) ==
    /\ pc[s] = "visit"
    /\ sl[s].items = <<>>
    /\ sl[s].changed
    /\ OpenTmp(s)
    /\ pc' = [pc EXCEPT ![s] = "s_dump"]
    /\ UNCHANGED <<now, DB, wl, sl, issued>>

SDump(s) ==
    /\ pc[s] = "s_dump"
    /\ Dump(s, TRUE)
    /\ pc' = [pc EXCEPT ![s] = "s_replace"]
    /\ UNCHANGED <<now, DB, wl, sl, issued>>

\* The exception leaves expiry_job.
SDumpFail(s) ==
    /\ pc[s] = "s_dump"
    /\ Dump(s, FALSE)
    /\ pc' = [pc EXCEPT ![s] = "s_done"]
    /\ sl' = [sl EXCEPT ![s] = SResult(@, "error")]
    /\ UNCHANGED <<now, DB, wl, issued>>

SReplace(s) ==
    /\ pc[s] = "s_replace"
    /\ Replace
    /\ pc' = [pc EXCEPT ![s] = "s_done"]
    /\ sl' = [sl EXCEPT ![s] = SResult(@, "ran")]
    /\ UNCHANGED <<now, DB, wl, issued>>

SReplaceFail(s) ==
    /\ pc[s] = "s_replace"
    /\ tmp.kind = "absent"
    /\ pc' = [pc EXCEPT ![s] = "s_done"]
    /\ sl' = [sl EXCEPT ![s] = SResult(@, "error")]
    /\ UNCHANGED <<now, DB, file, tmp, fh, wl, issued>>

\* expiry_job has returned (or raised): the trigger may fire again.
SReturn(s) ==
    /\ pc[s] = "s_done"
    /\ pc' = [pc EXCEPT ![s] = "idle"]
    /\ sl' = [sl EXCEPT ![s] = SIdle]
    /\ UNCHANGED <<now, DB, file, tmp, fh, wl, issued>>

\* -------------------------------------------------------------- environment
\* datetime.now(IST) advances.
Tick ==
    /\ now < MaxTime
    /\ now' = now + 1
    /\ UNCHANGED <<DB, file, tmp, fh, pc, wl, sl, issued>>

\* The process dies and is started again: DB = load_db().  The canonical
\* file, the channel and the gateway are as they were.  A temporary file left
\* behind is kept, as a file of no known content: save_db truncates it
\* before it writes or replaces anything.
Crash ==
    /\ DB' = load_db(file)
    /\ fh' = [t \in Threads |-> "none"]
    /\ pc' = [t \in Threads |-> "idle"]
    /\ wl' = [t \in FlaskThreads |-> WIdle]
    /\ sl' = [s \in Threads |-> SIdle]
    /\ tmp' = IF tmp.kind = "absent" THEN Absent ELSE Partial
    /\ UNCHANGED <<now, file, issued>>

Webhook(t) ==
    \/ WMissing(t)
    \/ \E req \in Requests :
         \/ WVerifyFailed(t, req)
         \/ WIgnored(t, req)
         \/ WNoUser(t, req)
         \/ WVerified(t, req)
    \/ WInvite(t)
    \/ WInviteFail(t)
    \/ WWrite(t)
    \/ WOpen(t)
    \/ WDump(t)
    \/ WDumpFail(t)
    \/ WReplace(t)
    \/ WReplaceFail(t)
    \/ WNotify(t)
    \/ WNotifyLost(t)
    \/ WReturn(t)

Sweep(s) ==
    \/ SweepEmpty(s)
    \/ SweepStart(s)
    \/ SweepSkip(s)
    \/ SweepRevoke(s)
    \/ SweepBanFail(s)
    \/ SweepUnbanFail(s)
    \/ SweepMark(s)
    \/ SweepStamp(s)
    \/ SweepDM(s)
    \/ SweepEnd(s)
    \/ SOpen(s)
    \/ SDump(s)
    \/ SDumpFail(s)
    \/ SReplace(s)
    \/ SReplaceFail(s)
    \/ SReturn(s)

Next ==
    \/ \E t \in FlaskThreads : Webhook(t) \/ RunExpiryDenied(t)
    \/ \E s \in Threads : Sweep(s)
    \/ Tick
    \/ Crash

Spec == Init /\ [][Next]_vars

\* The process starts on a store file left by an earlier deployment, in
\* which the record of identity "1" is active and has no expiry_ts key.
Malformed ==
    [status |-> "active", expiry_ts |-> None, last_payment |-> 0,
     expired_at |-> None]

StoredFile == Full(Put(EmptyDB, "1", Malformed))

InitStored ==
    /\ now = 0
    /\ file = StoredFile
    /\ tmp = Absent
    /\ DB = load_db(StoredFile)
    /\ fh = [t \in Threads |-> "none"]
    /\ pc = [t \in Threads |-> "idle"]
    /\ wl = [t \in FlaskThreads |-> WIdle]
    /\ sl = [s \in Threads |-> SIdle]
    /\ issued = {}

SpecStored == InitStored /\ [][Next]_vars

\* The process stays up.  The scheduler keeps running expiry_job (each run
\* goes on to its end), and a revoke that is attempted again and again
\* succeeds at some attempt.
NextLive ==
    \/ \E t \in FlaskThreads : Webhook(t) \/ RunExpiryDenied(t)
    \/ \E s \in Threads : Sweep(s)
    \/ Tick

SpecLive ==
    /\ Init
    /\ [][NextLive]_vars
    /\ WF_vars(Sweep("cron"))
    /\ SF_vars(SweepRevoke("cron"))

\* ============================================================ properties
\* The thread is inside a mutation of the store: a webhook from its write
\* of DB to the end of its save, a sweep from list(DB.items()) to the end
\* of its save (or to its return).
InSweep(t) ==
    pc[t] \in {"visit", "mark", "stamp", "dm", "s_dump", "s_replace"}

InMutation(t) == pc[t] \in {"open", "dump", "replace"} \/ InSweep(t)

\* The sweep s calls the chat platform to revoke the identity of its
\* current item in this step.
RevokeAttempted(s) ==
    /\ pc[s] = "visit"
    /\ sl[s].items # <<>>
    /\ sl[s].log[Uid(s)] = "none"
    /\ sl'[s].log[Uid(s)] \in {"revoked", "ban_failed", "unban_failed"}

RevokeFailed(s) ==
    /\ RevokeAttempted(s)
    /\ sl'[s].log[Uid(s)] \in {"ban_failed", "unban_failed"}

\* The sweep s leaves its current item without calling the chat platform.
Skipped(s) ==
    /\ pc[s] = "visit"
    /\ sl[s].items # <<>>
    /\ sl'[s].log[Uid(s)] = "skipped"

\* The sweep s writes its current item's record in this step.
Marked(s) == pc[s] = "mark" /\ pc'[s] = "stamp"

\* The webhook t stores its record in this step.
Activated(t) == pc[t] = "write" /\ pc'[t] = "open"

\* C1: at most one operation (webhook activation or sweep) is between its
\* first access to the store and the end of its save.
C1_MutualExclusion == Cardinality({t \in Threads : InMutation(t)}) <= 1

\* C2: no two executions of expiry_job are in progress at once, and no
\* identity is revoked by two sweeps that are both still running.
C2_SweepNotReentrant ==
    /\ Cardinality({t \in Threads : InSweep(t)}) <= 1
    /\ \A u \in Identities :
         Cardinality({t \in Threads :
            sl[t].log[u] \in {"revoked", "unban_failed", "expired"}}) <= 1

\* C3: a credential is issued at most once for a payment request, however
\* often the gateway delivers it.
C3_ExactlyOnceIssuance ==
    [][\A t \in FlaskThreads :
         (pc[t] = "invite" /\ pc'[t] = "write") => wl[t].req \notin issued]_vars

\* C4: when issuing the credential fails, the activation ends there: the
\* step leaves the store in memory and both files as they were, nothing has
\* been saved and no notification is sent.
C4_NoCredentialNoRecord ==
    [][\A t \in FlaskThreads :
         (pc[t] = "invite" /\ wl'[t].invite = "failed") =>
            /\ UNCHANGED <<DB, file, tmp>>
            /\ pc'[t] = "done"
            /\ wl'[t].saved = "no"
            /\ wl'[t].dm = "none"]_vars

C4_Witness ==
    \E t \in FlaskThreads : pc[t] = "done" /\ wl[t].invite = "failed"

\* C5: a failed revoke leaves every record as it was and the sweep goes on
\* with the next item; a record is marked only after its revoke succeeded,
\* the marking makes it expired and touches no other record; and when the
\* loop is over no succeeded revoke is left unmarked.
C5_SweepPartialFailure ==
    [][\A s \in Threads :
         /\ RevokeFailed(s) =>
               /\ DB' = DB
               /\ pc'[s] = "visit"
               /\ sl'[s].items = Tail(sl[s].items)
         /\ Marked(s) =>
               /\ sl[s].log[Uid(s)] = "revoked"
               /\ DB'[Uid(s)].status = "expired"
               /\ \A u \in Identities \ {Uid(s)} : DB'[u] = DB[u]
         /\ (sl[s].items = <<>>) =>
               \A u \in Identities : sl[s].log[u] # "revoked"]_vars

C5_Witness ==
    \E s \in Threads : \E u, v \in Identities :
        /\ sl[s].items = <<>>
        /\ sl[s].log[u] \in {"ban_failed", "unban_failed"}
        /\ sl[s].log[v] = "expired"
        /\ DB[u].status = "active"
        /\ DB[v].status = "expired"

\* C6: a sweep calls revoke for an identity exactly when that identity's
\* record is active with expiry_ts <= now_ts, and skips it otherwise.
C6_SweepThreshold ==
    [][\A s \in Threads :
         /\ RevokeAttempted(s) => IsDue(DB[Uid(s)], sl[s].now_ts)
         /\ Skipped(s) => ~IsDue(DB[Uid(s)], sl[s].now_ts)]_vars

\* C7: an activation leaves the identity with one record, active, with
\* expiry_ts = the instant of this activation + the period, whatever record
\* the identity had, and leaves every other identity's record as it was.
C7_IdempotentRenewal ==
    [][\A t \in FlaskThreads :
         Activated(t) =>
            /\ DB'[wl[t].tg_id] =
                 [status |-> "active", expiry_ts |-> now + SUBSCRIPTION_DAYS,
                  last_payment |-> now, expired_at |-> None]
            /\ Keys(DB') = Keys(DB) \cup {wl[t].tg_id}
            /\ \A u \in Identities \ {wl[t].tg_id} : DB'[u] = DB[u]]_vars

C7_Witness ==
    \E t \in FlaskThreads :
        /\ pc[t] = "open"
        /\ wl[t].renewal
        /\ DB[wl[t].tg_id].status = "active"
        /\ DB[wl[t].tg_id].expiry_ts = now + SUBSCRIPTION_DAYS

\* C8: a sweep that starts on an empty store, or on one with no record both
\* active and due, calls nothing, writes no record and saves nothing.
C8_IdleSweep ==
    \A s \in Threads :
        sl[s].idle =>
            /\ pc[s] \in {"visit", "s_done"}
            /\ ~sl[s].changed
            /\ \A u \in Identities : sl[s].log[u] \in {"none", "skipped"}
            /\ sl[s].resp \in {"", "ran"}

C8_Witness ==
    \E s \in Threads :
        /\ sl[s].idle
        /\ pc[s] = "visit"
        /\ sl[s].items = <<>>
        /\ DB # EmptyDB
        /\ sl[s].log # NoLog

\* C9: the canonical store file never holds a partial mapping.
C9_AtomicPersistence == file.kind # "partial"

\* C10: a record is never deleted; its status goes from active to expired
\* only in a sweep's marking after a succeeded revoke and with its expiry_ts
\* elapsed, and from expired to active only in an activation.
C10_RecordStateMachine ==
    [][Crash \/ \A u \in Identities :
         /\ Has(DB, u) => Has(DB', u)
         /\ DB'[u].status \in {"none", "active", "expired"}
         /\ (DB[u].status = "active" /\ DB'[u].status = "expired") =>
               \E s \in Threads :
                  /\ Marked(s)
                  /\ Uid(s) = u
                  /\ sl[s].log[u] = "revoked"
                  /\ DB[u].expiry_ts <= sl[s].now_ts
         /\ (DB[u].status = "expired" /\ DB'[u].status = "active") =>
               \E t \in FlaskThreads :
                  Activated(t) /\ wl[t].tg_id = u /\ wl[t].invite = "ok"]_vars

\* C11: every record of the store has an expired_at exactly when its status
\* is expired, except a record a sweep is in the middle of marking (status
\* written, expired_at about to be written).
C11_ExpiredAtIffExpired ==
    \A u \in Keys(DB) :
        (\A s \in Threads : ~(pc[s] = "stamp" /\ Uid(s) = u)) =>
            (DB[u].expired_at # None <=> DB[u].status = "expired")

\* What the activation of thread t has done, in the order it must be done:
\* the record is written only with the credential issued, the save is run
\* only with the record written, the message is dispatched only with the
\* save completed.
ActivationInOrder(t) ==
    /\ pc[t] \in {"write", "open", "dump", "replace", "notify"} =>
          wl[t].invite = "ok"
    /\ pc[t] \in {"invite", "write", "open", "dump", "replace"} =>
          wl[t].saved = "no" /\ wl[t].dm = "none"
    /\ wl[t].saved # "no" => wl[t].invite = "ok"
    /\ wl[t].dm # "none" => wl[t].saved = "ok"

\* C12: an activation issues the credential, then writes the record, then
\* persists the store, then dispatches the message; the record is written
\* and the save started by the steps in that order, and a lost message
\* leaves the store in memory and the store file as they were.
C12_ActivationOrdering ==
    [][\A t \in FlaskThreads :
         /\ ActivationInOrder(t)'
         /\ Activated(t) => wl[t].invite = "ok"
         /\ (pc'[t] = "dump" /\ pc[t] # "dump") => pc[t] = "open"
         /\ (pc'[t] = "open" /\ pc[t] # "open") => Activated(t)
         /\ (pc'[t] = "notify" /\ pc[t] # "notify") =>
               pc[t] = "replace" /\ file' = tmp
         /\ (wl[t].dm = "none" /\ wl'[t].dm = "lost") =>
               UNCHANGED <<DB, file, tmp>>]_vars

C12_Witness ==
    \E t \in FlaskThreads :
        /\ pc[t] = "done"
        /\ wl[t].invite = "ok"
        /\ wl[t].saved = "ok"
        /\ wl[t].dm = "lost"
        /\ file = Full(DB)
        /\ Keys(DB) # {}

\* C13: a notification is sent only after the store change it reports has
\* been persisted, and never from inside the sweep's loop: while a sweep
\* sends its renewal prompt, the expiry it reports is in the store file and
\* no listed record is waiting behind the send.
C13_NotificationsIndependent ==
    /\ \A t \in FlaskThreads : wl[t].dm # "none" => wl[t].saved = "ok"
    /\ \A s \in Threads :
         pc[s] = "dm" =>
            /\ file.kind = "full"
            /\ file.data[Uid(s)].status = "expired"
            /\ Tail(sl[s].items) = <<>>

\* The sweep s finishes the test of its current item in this step.
Visited(s) ==
    /\ pc[s] = "visit"
    /\ sl[s].items # <<>>
    /\ \/ pc'[s] \in {"mark", "stamp", "dm"}
       \/ pc'[s] = "visit" /\ sl'[s].items # sl[s].items

\* C14: a sweep that visits an active record with no expiry_ts skips it: no
\* revoke call is made, the store is left as it was and the sweep goes on
\* with the next item.
C14_MalformedSkipped ==
    [][\A s \in Threads :
         (Visited(s) /\ DB[Uid(s)].status = "active"
                     /\ DB[Uid(s)].expiry_ts = None) =>
            /\ Skipped(s)
            /\ DB' = DB
            /\ pc'[s] = "visit"
            /\ sl'[s].items = Tail(sl[s].items)]_vars

\* The gateway reports req as paid and names a numeric identity for it.
Payable(req) ==
    /\ req \in Requests
    /\ Gateway(req).status \in {"Completed", "Credit", "Success"}
    /\ Gateway(req).telegram_user_id \in {"1", "2"}

\* The delivery served by t ends in this step before the try block.
Rejected(t) == pc[t] = "idle" /\ pc'[t] = "done"

LeftBanned(s) == {u \in Identities : sl[s].log[u] = "unban_failed"}

\* C16: no sweep leaves an identity banned: a ban it placed is lifted in
\* the same revoke, whether the revoke is reported succeeded or failed.
C16_BanLifted == \A s \in Threads : LeftBanned(s) = {}

\* The record of u is active and its expiry_ts has elapsed.
Due(u) == IsDue(DB[u], now)

\* C17: a record that is active and past its expiry_ts, whatever revokes
\* have failed for it, is expired by a later sweep unless a new payment
\* renews it first.
C17_RevocationEventually == \A u \in Identities : Due(u) ~> ~Due(u)

C17_Witness ==
    \E u \in Identities :
        /\ pc["cron"] = "visit"
        /\ sl["cron"].items = <<>>
        /\ sl["cron"].log[u] \in {"ban_failed", "unban_failed"}
        /\ Due(u)
        /\ DB[u].expiry_ts <= sl["cron"].now_ts

\* C18: a sweep that visits a record already expired, with no activation of
\* that identity since the sweep listed the store, makes no revoke call and
\* sends no prompt for it and leaves the store as it was; and a sweep saves
\* only if it has expired a record itself.
C18_IdempotentRevocation ==
    [][\A s \in Threads :
         /\ (Visited(s)
               /\ DB[Uid(s)].status = "expired"
               /\ sl[s].old[Uid(s)] = Live) =>
               /\ sl'[s].log[Uid(s)] = "skipped"
               /\ pc'[s] = "visit"
               /\ sl'[s].items = Tail(sl[s].items)
               /\ sl'[s].changed = sl[s].changed
               /\ UNCHANGED <<DB, file, tmp>>
         /\ (pc[s] = "visit" /\ pc'[s] = "s_dump") =>
               \E u \in Identities : sl[s].log[u] = "expired"]_vars

C18_Witness ==
    \E s \in Threads : \E u \in Identities :
        /\ pc[s] = "visit"
        /\ sl[s].items = <<>>
        /\ sl[s].log[u] = "skipped"
        /\ DB[u].status = "expired"
        /\ DB[u].expired_at # None
        /\ ~sl[s].changed

\* C19: a sweep calls revoke for an identity, and writes its record as
\* expired, only while the record the store holds for it has an expiry_ts
\* at or before the sweep's instant.
C19_SweepRenewalRace ==
    [][\A s \in Threads :
         (RevokeAttempted(s) \/ Marked(s)) =>
            DB[Uid(s)].expiry_ts <= sl[s].now_ts]_vars

\* No request is being served and no sweep is running.
Quiescent == \A t \in Threads : pc[t] = "idle"

\* C20: whenever no activation and no sweep is in progress, the store file
\* holds the mapping that DB holds.
C20_FileEqualsDB == Quiescent => load_db(file) = DB
====
